---- MODULE Spec2Model ----
(***************************************************************************)
(* Credit ledger and settlement core of CyberCredit Arena                  *)
(* (server/storage.ts, class DatabaseStorage).                             *)
(*                                                                         *)
(* The store is PostgreSQL at READ COMMITTED.  The variables credits,      *)
(* lastStipendDate, ledger, subs, events, bets and loans are the COMMITTED *)
(* rows, i.e. what any other connection reads.  Every storage call is a    *)
(* coroutine (one entry of calls): its position pc, its arguments, the     *)
(* uncommitted writes of the transaction it opened with db.transaction     *)
(* (wsub, wevent, wbets, wloan) and, while it is inside updateUserCredits, *)
(* the uncommitted write of THAT call's own transaction (uc).              *)
(* updateUserCredits is always invoked as this.updateUserCredits(...),     *)
(* which runs db.transaction on the pool and not on the caller's tx: it    *)
(* commits on its own, before and independently of the enclosing           *)
(* transaction.  An UPDATE takes the row lock until its transaction ends;  *)
(* an UPDATE on a locked row waits and then reads the committed row.       *)
(***************************************************************************)
EXTENDS Integers, Sequences, FiniteSets, TLC

\* ---------------------------------------------------------------- bounds
\* Storage calls invoked in one behaviour, and calls in flight at once.
MaxCalls == 3
MaxActive == 2
\* Storage calls invoked in one behaviour in which every operation is offered.
MaxCallsAll == 2
\* Loans that createLoan may persist, and bet rows that placeBet may insert.
MaxLoans == 1
MaxBets == 2
MaxAmount == 100
MaxNow == 8           \* the last day of the clock

\* ------------------------------------------------------- program constants
StartCredits == 1000
StipendAmount == 200
StipendDays == 7

\* ------------------------------------------------------------ populations
Users == {"u1", "u2"}
\* An id that no row of users carries.
UnknownUsers == {"u0"}
Admin == "u1"
Events == {1}
Options == {"o1", "o2"}
\* The id of an option of another event.
OtherOptions == {"o3"}
Subs == {1}
CallIds == 1..MaxCalls
LoanIds == 1..MaxLoans
BetIds == 1..MaxBets

\* betting_options rows: the event of each option and its decimal(10,2)
\* multiplier in hundredths (2.00, exact in binary floating point, and 1.13,
\* which is not).
OptionEvent(o) == IF o \in OtherOptions THEN 2 ELSE 1
MultiplierHundredths(o) == IF o = "o1" THEN 200 ELSE 113

\* challenges row of the one challenge, and the submission made for it.
ChallengeId == 1
ChallengeReward == 50
SubUser(s) == "u2"

\* Inputs of the calls.
ApplyAmounts == {-400, 50}
BetAmounts == {300}
LoanAmounts == {500}
LoanRates == {10}
\* The amounts and the interest rates of the loan form that createLoan is tried on.
FormAmounts == 1..MaxAmount
FormRates == {0, 5, 10, 15, 16, 40, 100}
\* The operands the payout expression is evaluated on by itself.
PayoutAmounts == 1..MaxAmount
PayoutHundredths == {100, 113, 115, 150, 200}
\* The amounts a request to POST /api/bets may carry: any integer passes
\* insertBetSchema.
RequestAmounts == {-300, 0, 300}
\* A stake and a manual debit of more than half the starting balance: a second
\* one overdraws.
LargeStakes == {800}
LargeDebits == {-800}

VARIABLES
  credits,          \* users.credits
  lastStipendDate,  \* users.last_stipend_date; -1 is NULL
  ledger,           \* credit_transactions, in insertion order
  subs,             \* challenge_submissions
  events,           \* betting_events
  bets,             \* bets
  loans,            \* loans
  nextBet,          \* bet rows inserted so far (committed or not)
  now,              \* the clock, in days
  quota,            \* storage calls the callers issue in this behaviour
  calc,             \* one evaluation of the payout expression: its operands and value
  calls             \* the storage calls: running, returned or thrown

vars == <<credits, lastStipendDate, ledger, subs, events, bets, loans, nextBet, now, quota, calc, calls>>
db == <<credits, lastStipendDate, ledger, subs, events, bets, loans>>

\* ------------------------------------------------------------------- rows
NoSub == [status |-> "none", reviewedBy |-> "-", reviewedAt |-> -1]
NoEvent == [status |-> "none", winningOptionId |-> "-"]
NoBet == [status |-> "none", eventId |-> 0, optionId |-> "-", userId |-> "-", amount |-> 0, payout |-> -1]
NoLoan == [status |-> "none", borrowerId |-> "-", lenderId |-> "-", amount |-> 0, interestRate |-> 0,
           totalRepayment |-> 0]
NoUc == [open |-> FALSE, userId |-> "-", credits |-> 0, balanceAfter |-> 0, date |-> -1, stamp |-> -1]
NoBets == [b \in BetIds |-> NoBet]

Idle ==
  [op |-> "none", pc |-> "idle", at |-> "-", user |-> "-", id |-> 0, ev |-> 0, opt |-> "-",
   amount |-> 0, pre |-> "-", preEv |-> "-", sel |-> {}, todo |-> <<>>, snap |-> {}, uc |-> NoUc,
   since |-> 0, prior |-> {}, picked |-> {}, left |-> {}, mark |-> 0,
   wsub |-> NoSub, wevent |-> NoEvent, wloan |-> NoLoan, wbets |-> NoBets]

\* One pending Ledger application: the arguments of a call of updateUserCredits
\* (referenceId 0 is none; bet is the bet row a bet_win pays, 0 otherwise).
Credit(u, a, t, r, b) == [userId |-> u, amount |-> a, type |-> t, referenceId |-> r, bet |-> b]

Running(c) == calls[c].pc \notin {"idle", "done", "failed"}
Finished(c) == calls[c].pc \in {"done", "failed"}
Active == {c \in CallIds : Running(c)}

\* ------------------------------------------------------------------ locks
\* The users row is locked by the open updateUserCredits / stipend transaction
\* that has run its UPDATE.
UserLocked(u) == \E c \in CallIds : calls[c].uc.open /\ calls[c].uc.userId = u
SubLocked(s) == \E c \in CallIds : calls[c].op = "reviewSubmission" /\ calls[c].ev = s /\ calls[c].wsub.status # "none"
EventLocked(e) == \E c \in CallIds : calls[c].op = "resolveBettingEvent" /\ calls[c].ev = e /\ calls[c].wevent.status # "none"
BetLocked(b) == \E c \in CallIds : calls[c].wbets[b].status # "none"
LoanLocked(l) == \E c \in CallIds : calls[c].id = l /\ calls[c].wloan.status # "none"

\* ------------------------------------------------------------------- Init
InitDb ==
  /\ credits = [u \in Users |-> StartCredits]
  /\ lastStipendDate = [u \in Users |-> -1]
  /\ ledger = <<>>
  /\ subs = [s \in Subs |-> [status |-> "pending", reviewedBy |-> "-", reviewedAt |-> -1]]
  /\ events = [e \in Events |-> [status |-> "open", winningOptionId |-> "-"]]
  /\ bets = NoBets
  /\ loans = [l \in LoanIds |-> NoLoan]
  /\ nextBet = 0
  /\ now = 0
  /\ calls = [c \in CallIds |-> Idle]

\* No evaluation of the payout expression on its own.
NoCalc == [amount |-> 0, hundredths |-> 0, payout |-> -1]

Init == InitDb /\ quota = MaxCalls /\ calc = NoCalc
InitAll == InitDb /\ quota = MaxCallsAll /\ calc = NoCalc

\* The payout expression alone: a positive integer stake and a decimal(10,2)
\* multiplier, not yet evaluated.
InitPayout ==
  /\ InitDb
  /\ quota = 0
  /\ calc \in {[amount |-> a, hundredths |-> h, payout |-> -1] : a \in PayoutAmounts, h \in PayoutHundredths}

\* No call runs: the requests that are single statements remain.
InitNoCalls ==
  /\ InitDb
  /\ quota = 0
  /\ calc = NoCalc

\* A call is invoked in the first free slot, while fewer than MaxActive run.
CanStart(c) ==
  /\ calls[c].op = "none"
  /\ c <= quota
  /\ \A d \in CallIds : d < c => calls[d].op # "none"
  /\ Cardinality(Active) < MaxActive

\* ------------------------------------------------- updateUserCredits (Ledger)
\* The call's position after the Ledger application at the head of todo has
\* committed and updateUserCredits has returned to its caller.
AfterCredit(c, rest) ==
  CASE calls[c].op = "updateUserCredits" -> "done"
    [] calls[c].op = "resolveBettingEvent" -> IF rest = <<>> THEN "rs_lost" ELSE "rs_win"
    [] calls[c].op \in {"fundLoan", "repayLoan"} -> IF rest = <<>> THEN "commit" ELSE "uc_update"
    [] OTHER -> "commit"

\* An UPDATE of users that takes no row lock (a read-modify-write in the caller).
UpdateMayRunUnlocked(u) == TRUE

\* Whether the UPDATE of users row u may run now: it waits for the row lock.
UpdateMayRun(u) == ~UserLocked(u)

\* An update that leaves the balance alone when the amount would overdraw it.
NewCreditsGuarded(cur, amt) == IF cur + amt < 0 THEN cur ELSE cur + amt

\* credits: sql`${users.credits} + ${amount}`, on the committed row.
NewCredits(cur, amt) == cur + amt

\* History: the players a stipend run that throws inside its loop leaves
\* ungranted although their lastStipendDate is null or older than the run's
\* oneWeekAgo.
Stragglers(c) ==
  IF calls[c].op = "processWeeklyStipends" /\ calls[c].pc \in {"st_update", "st_commit"}
  THEN {u \in Users : lastStipendDate[u] = -1 \/ lastStipendDate[u] < calls[c].since}
  ELSE {}

\* History: the length of the ledger when a stipend run throws.
LedgerMark(c) == IF calls[c].op = "processWeeklyStipends" THEN Len(ledger) ELSE 0

\* A storage call throws: its open transactions roll back, so every uncommitted
\* write is dropped and every lock released; what committed stays.
Thrown(c) ==
  [calls[c] EXCEPT !.pc = "failed", !.at = calls[c].pc, !.uc = NoUc,
                   !.left = Stragglers(c), !.mark = LedgerMark(c),
                   !.wsub = NoSub, !.wevent = NoEvent, !.wloan = NoLoan, !.wbets = NoBets]

\* An updateUserCredits that returns quietly when its update matched no row.
NoRowReturns(c) == [calls[c] EXCEPT !.pc = "done", !.todo = <<>>]

\* The update matched no row: user is undefined, and evaluating user.credits for
\* the values of the insert throws before the insert is sent.
NoRow(c) == Thrown(c)

\* tx.update(users).set({credits: credits + amount}).where(id = userId).returning()
UcUpdate(c) ==
  /\ calls[c].pc = "uc_update"
  /\ LET a == Head(calls[c].todo) IN
       IF a.userId \in Users
       THEN /\ UpdateMayRun(a.userId)
            /\ calls' = [calls EXCEPT ![c].pc = "uc_commit",
                           ![c].uc = [open |-> TRUE, userId |-> a.userId,
                                      credits |-> NewCredits(credits[a.userId], a.amount),
                                      balanceAfter |-> NewCredits(credits[a.userId], a.amount),
                                      date |-> now, stamp |-> -1]]
       ELSE calls' = [calls EXCEPT ![c] = NoRow(c)]
  /\ UNCHANGED <<db, nextBet, now, quota, calc>>

\* tx.insert(creditTransactions) and the commit of updateUserCredits' transaction.
UcCommit(c) ==
  /\ calls[c].pc = "uc_commit"
  /\ LET a == Head(calls[c].todo)
         rest == Tail(calls[c].todo) IN
       /\ credits' = [credits EXCEPT ![a.userId] = calls[c].uc.credits]
       /\ ledger' = Append(ledger, [userId |-> a.userId, amount |-> a.amount, type |-> a.type,
                                    referenceId |-> a.referenceId,
                                    balanceAfter |-> calls[c].uc.balanceAfter,
                                    createdAt |-> calls[c].uc.date, call |-> c])
       /\ calls' = [calls EXCEPT ![c].pc = AfterCredit(c, rest), ![c].todo = rest, ![c].uc = NoUc]
  /\ UNCHANGED <<lastStipendDate, subs, events, bets, loans, nextBet, now, quota, calc>>

StartUpdateUserCredits(c, u, amt) ==
  /\ CanStart(c)
  /\ calls' = [calls EXCEPT ![c] = [Idle EXCEPT !.op = "updateUserCredits", !.pc = "uc_update",
                                      !.user = u, !.amount = amt,
                                      !.todo = <<Credit(u, amt, "manual", 0, 0)>>]]
  /\ UNCHANGED <<db, nextBet, now, quota, calc>>

\* ------------------------------------------------------ processWeeklyStipends
\* const oneWeekAgo = new Date(Date.now() - 7 * 24 * 60 * 60 * 1000)
OneWeekAgo == now - StipendDays

\* A select that returns every player.
EligibleAlways(u, oneWeekAgo) == TRUE

\* A select that returns the players never granted only.
EligibleNullOnly(u, oneWeekAgo) == lastStipendDate[u] = -1

\* lastStipendDate IS NULL OR lastStipendDate < oneWeekAgo, on the committed row.
Eligible(u, oneWeekAgo) == lastStipendDate[u] = -1 \/ lastStipendDate[u] < oneWeekAgo

\* A stipend that leaves the player's lastStipendDate as it was.
StampKept(u) == lastStipendDate[u]

\* lastStipendDate: new Date()
StampedDate(u) == now

\* A stipend that writes the balance from the row the select returned.
StipendCreditsStale(r, cur) == r.credits + StipendAmount

\* credits: sql`${users.credits} + 200`, for the user read as row r, on the
\* committed balance cur.
StipendCredits(r, cur) == cur + StipendAmount

\* balanceAfter: user.credits + 200, of the user read as row r.
StipendBalanceAfter(r) == r.credits + StipendAmount

\* A loop that ends after its first player.
RemainingNone(snap, r) == {}

\* for (const user of eligibleUsers): the rows still to visit after r.
Remaining(snap, r) == snap \ {r}

StartProcessWeeklyStipends(c) ==
  /\ CanStart(c)
  /\ calls' = [calls EXCEPT ![c] = [Idle EXCEPT !.op = "processWeeklyStipends", !.pc = "st_select",
                                      !.since = OneWeekAgo,
                                      !.prior = {d \in CallIds : Finished(d)}]]
  /\ UNCHANGED <<db, nextBet, now, quota, calc>>

\* db.select().from(users).where(lastStipendDate IS NULL OR lastStipendDate < oneWeekAgo)
StSelect(c) ==
  /\ calls[c].pc = "st_select"
  /\ LET rows == {[userId |-> u, credits |-> credits[u]] :
                     u \in {v \in Users : Eligible(v, calls[c].since)}} IN
       calls' = [calls EXCEPT ![c].snap = rows, ![c].picked = {r.userId : r \in rows},
                              ![c].pc = IF rows = {} THEN "done" ELSE "st_update"]
  /\ UNCHANGED <<db, nextBet, now, quota, calc>>

\* One turn of the loop, for a row the select returned (it has no ORDER BY):
\* tx.update(users).set({credits: credits + 200, lastStipendDate: new Date()})
StUpdate(c) ==
  /\ calls[c].pc = "st_update"
  /\ \E r \in calls[c].snap :
       /\ UpdateMayRun(r.userId)
       /\ calls' = [calls EXCEPT ![c].pc = "st_commit", ![c].snap = Remaining(calls[c].snap, r),
                      ![c].uc = [open |-> TRUE, userId |-> r.userId,
                                 credits |-> StipendCredits(r, credits[r.userId]),
                                 balanceAfter |-> StipendBalanceAfter(r),
                                 date |-> now, stamp |-> StampedDate(r.userId)]]
  /\ UNCHANGED <<db, nextBet, now, quota, calc>>

\* tx.insert(creditTransactions) and the commit of this user's transaction.
StCommit(c) ==
  /\ calls[c].pc = "st_commit"
  /\ LET u == calls[c].uc.userId IN
       /\ credits' = [credits EXCEPT ![u] = calls[c].uc.credits]
       /\ lastStipendDate' = [lastStipendDate EXCEPT ![u] = calls[c].uc.stamp]
       /\ ledger' = Append(ledger, [userId |-> u, amount |-> StipendAmount, type |-> "weekly_stipend",
                                    referenceId |-> 0, balanceAfter |-> calls[c].uc.balanceAfter,
                                    createdAt |-> calls[c].uc.date, call |-> c])
  /\ calls' = [calls EXCEPT ![c].pc = IF calls[c].snap = {} THEN "done" ELSE "st_update", ![c].uc = NoUc]
  /\ UNCHANGED <<subs, events, bets, loans, nextBet, now, quota, calc>>

\* ------------------------------------------------------------ reviewSubmission
StartReviewSubmission(c, s, decision) ==
  /\ CanStart(c)
  /\ calls' = [calls EXCEPT ![c] = [Idle EXCEPT !.op = "reviewSubmission", !.pc = "rv_update",
                                      !.user = Admin, !.ev = s, !.opt = decision,
                                      !.pre = subs[s].status]]
  /\ UNCHANGED <<db, nextBet, now, quota, calc>>

\* The row tx.update(challengeSubmissions).set({status, reviewedBy, reviewedAt})
\* .where(id = submissionId) writes over the committed row sub.
Reviewed(sub, decision, reviewer) ==
  [status |-> decision, reviewedBy |-> reviewer, reviewedAt |-> now]

\* A review that pays the reward whatever the decision.
PaysRewardAlways(decision) == TRUE

\* if (status === 'approved'), with the challenge row found
PaysReward(decision) == decision = "approved"

\* The update, and on approval the select of the challenge.
RvUpdate(c) ==
  /\ calls[c].pc = "rv_update"
  /\ LET s == calls[c].ev IN
       /\ ~SubLocked(s)
       /\ calls' = [calls EXCEPT
            ![c].wsub = Reviewed(subs[s], calls[c].opt, calls[c].user),
            ![c].todo = IF PaysReward(calls[c].opt)
                        THEN <<Credit(SubUser(s), ChallengeReward, "challenge_reward", ChallengeId, 0)>>
                        ELSE <<>>,
            ![c].pc = IF PaysReward(calls[c].opt) THEN "uc_update" ELSE "commit"]
  /\ UNCHANGED <<db, nextBet, now, quota, calc>>

\* ----------------------------------------------------------------- placeBet
StartPlaceBet(c, u, e, o, amt) ==
  /\ CanStart(c)
  /\ nextBet < MaxBets
  /\ calls' = [calls EXCEPT ![c] = [Idle EXCEPT !.op = "placeBet", !.pc = "pb_insert",
                                      !.user = u, !.ev = e, !.opt = o, !.amount = amt,
                                      !.pre = events[e].status]]
  /\ UNCHANGED <<db, nextBet, now, quota, calc>>

\* The row tx.insert(bets).values(bet) adds (status defaults to active).
NewBet(u, e, o, amt) ==
  [status |-> "active", eventId |-> e, optionId |-> o, userId |-> u, amount |-> amt, payout |-> -1]

PbInsert(c) ==
  /\ calls[c].pc = "pb_insert"
  /\ nextBet < MaxBets
  /\ nextBet' = nextBet + 1
  /\ calls' = [calls EXCEPT
       ![c].id = nextBet + 1,
       ![c].wbets = [NoBets EXCEPT ![nextBet + 1] = NewBet(calls[c].user, calls[c].ev, calls[c].opt, calls[c].amount)],
       ![c].todo = <<Credit(calls[c].user, -calls[c].amount, "bet_placed", calls[c].ev, 0)>>,
       ![c].pc = "uc_update"]
  /\ UNCHANGED <<db, now, quota, calc>>

\* ---------------------------------------------------------------- cancelBet
StartCancelBet(c, b, u) ==
  /\ CanStart(c)
  /\ calls' = [calls EXCEPT ![c] = [Idle EXCEPT !.op = "cancelBet", !.pc = "cb_update",
                                      !.user = u, !.id = b, !.pre = bets[b].status,
                                      !.preEv = IF bets[b].status = "none" THEN "-"
                                                ELSE events[bets[b].eventId].status]]
  /\ UNCHANGED <<db, nextBet, now, quota, calc>>

\* An update that matches the bet id alone.
CancelMatchesAnyOwner(bet, u) == bet.status # "none"

\* Whether tx.update(bets).set({status: 'cancelled'}).where(and(id = betId,
\* userId = userId)) matches the committed row bet.
CancelMatches(bet, u) == bet.status # "none" /\ bet.userId = u

CbUpdate(c) ==
  /\ calls[c].pc = "cb_update"
  /\ LET b == calls[c].id
         bet == bets[b] IN
       /\ ~BetLocked(b)
       /\ calls' = [calls EXCEPT
            ![c].wbets = IF CancelMatches(bet, calls[c].user)
                         THEN [NoBets EXCEPT ![b] = [bet EXCEPT !.status = "cancelled"]]
                         ELSE NoBets,
            ![c].todo = IF CancelMatches(bet, calls[c].user)
                        THEN <<Credit(calls[c].user, bet.amount, "bet_cancelled", bet.eventId, 0)>>
                        ELSE <<>>,
            ![c].pc = IF CancelMatches(bet, calls[c].user) THEN "uc_update" ELSE "commit"]
  /\ UNCHANGED <<db, nextBet, now, quota, calc>>

\* ------------------------------------------------------ resolveBettingEvent
StartResolveBettingEvent(c, e, o) ==
  /\ CanStart(c)
  /\ calls' = [calls EXCEPT ![c] = [Idle EXCEPT !.op = "resolveBettingEvent", !.pc = "rs_event",
                                      !.user = Admin, !.ev = e, !.opt = o,
                                      !.pre = events[e].status]]
  /\ UNCHANGED <<db, nextBet, now, quota, calc>>

\* ---------------------------------------------- the payout expression
\* JavaScript numbers are IEEE-754 binary64: a significand of Precision bits,
\* every result rounded to nearest, ties to even. A positive number is held
\* as [bits, e]: the significand's bits, most significant first and starting
\* with 1, and the exponent of its last bit; its value is bits * 2^e.
Precision == 53

\* Fraction bits that show Precision + 1 significant bits of any h / 100 >= 1/128.
FracLen == Precision + 8

Reverse(s) == [i \in 1..Len(s) |-> s[Len(s) + 1 - i]]

Pow2(n) == 2^n

\* s without its leading zeros.
Strip(s) ==
  IF \A i \in 1..Len(s) : s[i] = 0 THEN <<>>
  ELSE SubSeq(s, CHOOSE i \in 1..Len(s) : s[i] = 1 /\ \A j \in 1..(i - 1) : s[j] = 0, Len(s))

\* The bits of the natural n < 2^31, most significant first.
Bits(n) == Strip([i \in 1..31 |-> (n \div Pow2(31 - i)) % 2])

RECURSIVE ToInt(_)
\* The natural whose bits are s, most significant first.
ToInt(s) ==
  IF s = <<>> THEN 0
  ELSE IF Len(s) = 1 THEN s[1]
  ELSE LET half == Len(s) \div 2 IN
         ToInt(SubSeq(s, 1, half)) * Pow2(Len(s) - half) + ToInt(SubSeq(s, half + 1, Len(s)))

RECURSIVE Pow2Mod100(_)
\* 2^n modulo 100.
Pow2Mod100(n) ==
  IF n = 0 THEN 1
  ELSE IF n % 2 = 0 THEN LET h == Pow2Mod100(n \div 2) IN (h * h) % 100
  ELSE (2 * Pow2Mod100(n - 1)) % 100

\* What is left of r / 100, 0 <= r < 100, after the first n bits of its binary
\* expansion, in units of 2^-n / 100.
FracRem(r, n) == (r * Pow2Mod100(n)) % 100

\* The first n bits of the binary expansion of r / 100.
FracBits(r, n) == [i \in 1..n |-> (2 * FracRem(r, i - 1)) \div 100]

\* s + 1, most significant bit first.
Inc(s) ==
  IF \A i \in 1..Len(s) : s[i] = 1 THEN <<1>> \o [i \in 1..Len(s) |-> 0]
  ELSE LET k == CHOOSE i \in 1..Len(s) : s[i] = 0 /\ \A j \in (i + 1)..Len(s) : s[j] = 1 IN
         [i \in 1..Len(s) |-> IF i < k THEN s[i] ELSE IF i = k THEN 1 ELSE 0]

\* Long multiplication works on digits of 16 bits.
Limb == Pow2(16)

\* The 16 bits of the digit x, most significant first.
LimbBits(x) == [i \in 1..16 |-> (x \div Pow2(16 - i)) % 2]

\* The bits of s * k, most significant first, for a significand s of at most
\* 64 bits and a natural k < 2^15.
Mul(s, k) ==
  LET pad == [i \in 1..(64 - Len(s)) |-> 0] \o s
      p0  == ToInt(SubSeq(pad, 49, 64)) * k
      p1  == ToInt(SubSeq(pad, 33, 48)) * k + p0 \div Limb
      p2  == ToInt(SubSeq(pad, 17, 32)) * k + p1 \div Limb
      p3  == ToInt(SubSeq(pad, 1, 16)) * k + p2 \div Limb
  IN  Strip(LimbBits(p3 \div Limb) \o LimbBits(p3 % Limb) \o LimbBits(p2 % Limb)
              \o LimbBits(p1 % Limb) \o LimbBits(p0 % Limb))

\* The binary64 nearest to bits * 2^e (plus a nonzero tail below the last bit
\* when sticky), ties to even.
Round(bits, e, sticky) ==
  IF Len(bits) <= Precision THEN [bits |-> bits, e |-> e]
  ELSE LET keep == SubSeq(bits, 1, Precision)
           rest == sticky \/ \E i \in (Precision + 2)..Len(bits) : bits[i] = 1
           up   == bits[Precision + 1] = 1 /\ (rest \/ keep[Precision] = 1)
           r    == IF up THEN Inc(keep) ELSE keep
       IN  IF Len(r) > Precision
           THEN [bits |-> SubSeq(r, 1, Precision), e |-> e + Len(bits) - Precision + 1]
           ELSE [bits |-> r, e |-> e + Len(bits) - Precision]

\* parseFloat of the decimal(10,2) string of h hundredths, h > 0.
ParseFloat(h) ==
  Round(Strip(Bits(h \div 100) \o FracBits(h % 100, FracLen)), -FracLen, FracRem(h % 100, FracLen) # 0)

\* k * f in binary64, for an integer k > 0.
Times(k, f) == Round(Mul(f.bits, k), f.e, FALSE)

\* Math.floor of a positive binary64.
Floor(f) ==
  IF f.e >= 0 THEN ToInt(f.bits) * Pow2(f.e)
  ELSE IF -f.e >= Len(f.bits) THEN 0
  ELSE ToInt(SubSeq(f.bits, 1, Len(f.bits) + f.e))

\* Whether a positive binary64 is an integer.
IsWhole(f) == f.e >= 0 \/ \A i \in 1..Len(f.bits) : i > Len(f.bits) + f.e => f.bits[i] = 0

\* Math.floor(amount * parseFloat(multiplier)) for the multiplier of h >= 0
\* hundredths.
FloatPayout(amt, h) ==
  IF amt = 0 \/ h = 0 THEN 0
  ELSE IF amt > 0 THEN Floor(Times(amt, ParseFloat(h)))
  ELSE LET f == Times(-amt, ParseFloat(h)) IN -(Floor(f) + IF IsWhole(f) THEN 0 ELSE 1)

\* The payout expression evaluated on the operands of calc.
ComputePayout ==
  /\ calc.payout = -1 /\ calc.amount # 0
  /\ calc' = [calc EXCEPT !.payout = FloatPayout(calc.amount, calc.hundredths)]
  /\ UNCHANGED <<db, nextBet, now, quota, calls>>

\* Math.floor(bet.amount * parseFloat(option.multiplier))
Payout(amt, o) == FloatPayout(amt, MultiplierHundredths(o))

\* The committed bets the select of winningBets returns.
WinningBets(e, o) == {b \in BetIds : bets[b].eventId = e /\ bets[b].optionId = o /\ bets[b].status = "active"}

\* An update that marks the active bets on the winning option.
LosingBetsSameOption(e, o) == {b \in BetIds : bets[b].eventId = e /\ bets[b].optionId = o /\ bets[b].status = "active"}

\* The committed bets the final update marks lost.
LosingBets(e, o) == {b \in BetIds : bets[b].eventId = e /\ bets[b].optionId # o /\ bets[b].status = "active"}

\* The orders in which a select without ORDER BY may return the rows S.
Orders(S) == {q \in [1..Cardinality(S) -> S] : \A i, j \in 1..Cardinality(S) : i # j => q[i] # q[j]}

\* The row tx.update(bettingEvents).set({status: 'resolved', winningOptionId,
\* resolvedAt}).where(id = eventId) writes over the committed row ev.
Resolved(ev, o) == [status |-> "resolved", winningOptionId |-> o]

\* The update of the event and the select of the winning bets.
RsEvent(c) ==
  /\ calls[c].pc = "rs_event"
  /\ LET e == calls[c].ev
         o == calls[c].opt IN
       /\ ~EventLocked(e)
       /\ \E q \in Orders(WinningBets(e, o)) :
            calls' = [calls EXCEPT
              ![c].wevent = Resolved(events[e], o),
              ![c].sel = {q[i] : i \in 1..Len(q)},
              ![c].todo = [i \in 1..Len(q) |->
                             Credit(bets[q[i]].userId, Payout(bets[q[i]].amount, bets[q[i]].optionId),
                                    "bet_win", e, q[i])],
              ![c].pc = IF Len(q) = 0 THEN "rs_lost" ELSE "rs_win"]
  /\ UNCHANGED <<db, nextBet, now, quota, calc>>

\* One turn of the winner loop up to its call of updateUserCredits:
\* tx.update(bets).set({status: 'won', payout}).where(id = bet.id)
RsWin(c) ==
  /\ calls[c].pc = "rs_win"
  /\ LET a == Head(calls[c].todo) IN
       /\ ~BetLocked(a.bet) \/ calls[c].wbets[a.bet].status # "none"
       /\ calls' = [calls EXCEPT
            ![c].wbets[a.bet] = [bets[a.bet] EXCEPT !.status = "won", !.payout = a.amount],
            ![c].pc = "uc_update"]
  /\ UNCHANGED <<db, nextBet, now, quota, calc>>

\* tx.update(bets).set({status: 'lost'}).where(eventId, optionId != winning, active)
RsLost(c) ==
  /\ calls[c].pc = "rs_lost"
  /\ LET L == LosingBets(calls[c].ev, calls[c].opt) IN
       /\ \A b \in L : ~BetLocked(b)
       /\ calls' = [calls EXCEPT
            ![c].wbets = [b \in BetIds |-> IF b \in L THEN [bets[b] EXCEPT !.status = "lost"]
                                           ELSE calls[c].wbets[b]],
            ![c].pc = "commit"]
  /\ UNCHANGED <<db, nextBet, now, quota, calc>>

\* -------------------------------------------------------------------- loans
\* rate / 100 in binary64, for an integer rate > 0: the quotient of two exact
\* integers, rounded once.
Percent(rate) == ParseFloat(rate)

\* 1 + f in binary64, for a positive binary64 f: the single bit of 1 is added
\* to the significand at its place and the sum is rounded.
OnePlus(f) ==
  LET whole == IF f.e >= 0 THEN f.bits \o [i \in 1..f.e |-> 0] ELSE f.bits
      k     == IF f.e >= 0 THEN 0 ELSE -f.e
      pad   == [i \in 1..(k - Len(whole)) |-> 0] \o whole
      upper == SubSeq(pad, 1, Len(pad) - k)
      lower == SubSeq(pad, Len(pad) - k + 1, Len(pad))
  IN  Round(Strip(Inc(upper) \o lower), -k, FALSE)

\* const totalRepayment = Math.floor(amount * (1 + rate / 100)), for an amount
\* > 0 and a rate >= 0 as parseInt returned them.
TotalRepayment(amt, rate) ==
  IF rate = 0 THEN amt ELSE Floor(Times(amt, OnePlus(Percent(rate))))

\* handleCreateLoan posts amount, interestRate and the totalRepayment it
\* computed; the route parses the body and createLoan stores it as it came:
\* db.insert(loans).values(loan), a single statement, committed at once.
CreateLoan(u, amt, rate) ==
  /\ \E l \in LoanIds :
       /\ loans[l].status = "none"
       /\ \A k \in LoanIds : k < l => loans[k].status # "none"
       /\ loans' = [loans EXCEPT ![l] = [status |-> "pending", borrowerId |-> u, lenderId |-> "-",
                                         amount |-> amt, interestRate |-> rate,
                                         totalRepayment |-> TotalRepayment(amt, rate)]]
  /\ UNCHANGED <<credits, lastStipendDate, ledger, subs, events, bets, nextBet, now, quota, calc, calls>>

StartFundLoan(c, l, u) ==
  /\ CanStart(c)
  /\ calls' = [calls EXCEPT ![c] = [Idle EXCEPT !.op = "fundLoan", !.pc = "fl_update",
                                      !.user = u, !.id = l, !.pre = loans[l].status]]
  /\ UNCHANGED <<db, nextBet, now, quota, calc>>

\* Whether tx.update(loans).set({lenderId, status: 'funded', fundedAt})
\* .where(id = loanId) matches the committed row loan.
FundMatches(loan) == loan.status # "none"

FlUpdate(c) ==
  /\ calls[c].pc = "fl_update"
  /\ LET l == calls[c].id
         loan == loans[l] IN
       /\ ~LoanLocked(l)
       /\ calls' = [calls EXCEPT
            ![c].wloan = IF FundMatches(loan)
                         THEN [loan EXCEPT !.status = "funded", !.lenderId = calls[c].user]
                         ELSE NoLoan,
            ![c].todo = IF FundMatches(loan)
                        THEN <<Credit(calls[c].user, -loan.amount, "loan_funded", l, 0),
                               Credit(loan.borrowerId, loan.amount, "loan_received", l, 0)>>
                        ELSE <<>>,
            ![c].pc = IF FundMatches(loan) THEN "uc_update" ELSE "commit"]
  /\ UNCHANGED <<db, nextBet, now, quota, calc>>

StartRepayLoan(c, l) ==
  /\ CanStart(c)
  /\ calls' = [calls EXCEPT ![c] = [Idle EXCEPT !.op = "repayLoan", !.pc = "rl_update",
                                      !.id = l, !.pre = loans[l].status]]
  /\ UNCHANGED <<db, nextBet, now, quota, calc>>

\* Whether tx.update(loans).set({status: 'repaid', repaidAt}).where(id = loanId)
\* matches the committed row loan.
RepayMatches(loan) == loan.status # "none"

\* if (loan && loan.lenderId)
RepayMoves(loan) == RepayMatches(loan) /\ loan.lenderId # "-"

\* A repayment of the principal alone.
RepayPrincipal(loan) == loan.amount

\* loan.totalRepayment, the amount both updateUserCredits calls of repayLoan move.
RepayAmount(loan) == loan.totalRepayment

RlUpdate(c) ==
  /\ calls[c].pc = "rl_update"
  /\ LET l == calls[c].id
         loan == loans[l] IN
       /\ ~LoanLocked(l)
       /\ calls' = [calls EXCEPT
            ![c].wloan = IF RepayMatches(loan) THEN [loan EXCEPT !.status = "repaid"] ELSE NoLoan,
            ![c].todo = IF RepayMoves(loan)
                        THEN <<Credit(loan.borrowerId, -RepayAmount(loan), "loan_repaid", l, 0),
                               Credit(loan.lenderId, RepayAmount(loan), "loan_repaid_received", l, 0)>>
                        ELSE <<>>,
            ![c].pc = IF RepayMoves(loan) THEN "uc_update" ELSE "commit"]
  /\ UNCHANGED <<db, nextBet, now, quota, calc>>

\* ------------------------------------------------------------------ clock
\* The days on which callers act: the first, the day after, a week after and
\* the last.
ClockDays == {0, 1, StipendDays, MaxNow}

\* Time passes until a later day on which callers act.
Tick ==
  /\ now' \in {d \in ClockDays : d > now}
  /\ UNCHANGED <<db, nextBet, quota, calc, calls>>

\* ------------------------------------------------- end of db.transaction(...)
\* The callback returned: the enclosing transaction commits its writes.
Commit(c) ==
  /\ calls[c].pc = "commit"
  /\ subs' = [s \in Subs |-> IF calls[c].op = "reviewSubmission" /\ calls[c].ev = s /\ calls[c].wsub.status # "none"
                             THEN calls[c].wsub ELSE subs[s]]
  /\ events' = [e \in Events |-> IF calls[c].op = "resolveBettingEvent" /\ calls[c].ev = e /\ calls[c].wevent.status # "none"
                                 THEN calls[c].wevent ELSE events[e]]
  /\ bets' = [b \in BetIds |-> IF calls[c].wbets[b].status # "none" THEN calls[c].wbets[b] ELSE bets[b]]
  /\ loans' = [l \in LoanIds |-> IF calls[c].id = l /\ calls[c].wloan.status # "none"
                                 THEN calls[c].wloan ELSE loans[l]]
  /\ calls' = [calls EXCEPT ![c].pc = "done", ![c].wsub = NoSub, ![c].wevent = NoEvent,
                            ![c].wloan = NoLoan, ![c].wbets = NoBets]
  /\ UNCHANGED <<credits, lastStipendDate, ledger, nextBet, now, quota, calc>>

\* A fault (a lost connection, a failed statement) at any await of a running call.
Fail(c) ==
  /\ Running(c)
  /\ calls' = [calls EXCEPT ![c] = Thrown(c)]
  /\ UNCHANGED <<db, nextBet, now, quota, calc>>

\* ---------------------------------------------------------- specifications
Ledger ==
  \/ \E c \in CallIds, u \in Users, amt \in ApplyAmounts : StartUpdateUserCredits(c, u, amt)
  \/ \E c \in CallIds : UcUpdate(c)
  \/ \E c \in CallIds : UcCommit(c)
  \/ \E c \in CallIds : Fail(c)

Stipends ==
  \/ \E c \in CallIds : StartProcessWeeklyStipends(c)
  \/ \E c \in CallIds : StSelect(c)
  \/ \E c \in CallIds : StUpdate(c)
  \/ \E c \in CallIds : StCommit(c)

Challenges ==
  \/ \E c \in CallIds, s \in Subs, d \in {"approved", "rejected"} : StartReviewSubmission(c, s, d)
  \/ \E c \in CallIds : RvUpdate(c)

Betting ==
  \/ \E c \in CallIds, u \in Users, e \in Events, o \in Options, amt \in BetAmounts : StartPlaceBet(c, u, e, o, amt)
  \/ \E c \in CallIds : PbInsert(c)
  \/ \E c \in CallIds, b \in BetIds, u \in Users : StartCancelBet(c, b, u)
  \/ \E c \in CallIds : CbUpdate(c)
  \/ \E c \in CallIds, e \in Events, o \in Options : StartResolveBettingEvent(c, e, o)
  \/ \E c \in CallIds : RsEvent(c)
  \/ \E c \in CallIds : RsWin(c)
  \/ \E c \in CallIds : RsLost(c)

Lending ==
  \/ \E u \in Users, amt \in LoanAmounts, rate \in LoanRates : CreateLoan(u, amt, rate)
  \/ \E c \in CallIds, l \in LoanIds, u \in Users : StartFundLoan(c, l, u)
  \/ \E c \in CallIds : FlUpdate(c)
  \/ \E c \in CallIds, l \in LoanIds : StartRepayLoan(c, l)
  \/ \E c \in CallIds : RlUpdate(c)

EndTx == \E c \in CallIds : Commit(c)

\* Every operation of the core.
Next == Ledger \/ Stipends \/ Challenges \/ Betting \/ Lending \/ EndTx

Spec == InitAll /\ [][Next]_vars

\* The Ledger alone, with the stipend batch.
NextLedger == Ledger \/ Stipends
SpecLedger == Init /\ [][NextLedger]_vars

\* Stipend runs over the days, with faults.
NextStipends == Stipends \/ Tick \/ (\E c \in CallIds : Fail(c))
SpecStipends == InitAll /\ [][NextStipends]_vars

\* Concurrent calls of updateUserCredits only.
SpecApply == Init /\ [][Ledger]_vars

\* Concurrent calls of updateUserCredits, some for an id without a row, and no
\* other fault.
NextApplyUnknown ==
  \/ \E c \in CallIds, u \in Users \cup UnknownUsers, amt \in ApplyAmounts : StartUpdateUserCredits(c, u, amt)
  \/ \E c \in CallIds : UcUpdate(c)
  \/ \E c \in CallIds : UcCommit(c)
SpecApplyUnknown == Init /\ [][NextApplyUnknown]_vars

\* ----------------------------------------------------- the connection pool
\* The first statement of each enclosing db.transaction: a call that is past it
\* holds the connection of that transaction until it commits or throws.
EntryPcs == {"rv_update", "pb_insert", "cb_update", "rs_event", "fl_update", "rl_update"}

HoldsOuter(c) == Running(c) /\ calls[c].op # "updateUserCredits" /\ calls[c].pc \notin EntryPcs \cup {"st_select", "st_update", "st_commit"}

\* The open transaction of updateUserCredits holds a connection of its own.
HoldsInner(c) == calls[c].uc.open

\* The pool of ./db: as many connections as operations run concurrently.
PoolSize == MaxActive

InUse == Cardinality({c \in CallIds : HoldsOuter(c)}) + Cardinality({c \in CallIds : HoldsInner(c)})

\* db.transaction(...) takes a connection from the pool and waits for one when
\* all are in use.
ConnFree == InUse < PoolSize

\* The bets the callers have asked for and not yet inserted.
BetsAsked == Cardinality({c \in CallIds : calls[c].pc = "pb_insert"})

\* The steps of call c over the pool, with no fault.
PoolStep(c) ==
  \/ ConnFree /\ PbInsert(c)
  \/ ConnFree /\ UcUpdate(c)
  \/ UcCommit(c)
  \/ Commit(c)

\* placeBet and updateUserCredits over the pool.
NextPool ==
  \/ \E c \in CallIds, u \in Users, e \in Events, o \in Options, amt \in BetAmounts :
       nextBet + BetsAsked < MaxBets /\ StartPlaceBet(c, u, e, o, amt)
  \/ \E c \in CallIds, u \in Users, amt \in ApplyAmounts : StartUpdateUserCredits(c, u, amt)
  \/ \E c \in CallIds : PoolStep(c)

\* The event loop and the store run every continuation that can run: each
\* call's next step is taken if it stays possible. Callers need not call.
SpecPool == Init /\ [][NextPool]_vars /\ \A c \in CallIds : WF_vars(PoolStep(c))

\* Debits that exceed the balance: large stakes, large manual debits and loans,
\* with no fault.
NextOverdraft ==
  \/ \E c \in CallIds, u \in Users, e \in Events, o \in Options, amt \in LargeStakes :
       StartPlaceBet(c, u, e, o, amt)
  \/ \E c \in CallIds : PbInsert(c)
  \/ \E c \in CallIds, u \in Users, amt \in LargeDebits : StartUpdateUserCredits(c, u, amt)
  \/ Lending
  \/ \E c \in CallIds : UcUpdate(c)
  \/ \E c \in CallIds : UcCommit(c)
  \/ \E c \in CallIds : Commit(c)
SpecOverdraft == Init /\ [][NextOverdraft]_vars

\* Bets and resolutions whose winningOptionId is any option id a request body
\* may carry, with no fault.
NextResolveAny ==
  \/ \E c \in CallIds, u \in Users, e \in Events, o \in Options, amt \in BetAmounts : StartPlaceBet(c, u, e, o, amt)
  \/ \E c \in CallIds : PbInsert(c)
  \/ \E c \in CallIds, e \in Events, o \in Options \cup OtherOptions : StartResolveBettingEvent(c, e, o)
  \/ \E c \in CallIds : RsEvent(c)
  \/ \E c \in CallIds : RsWin(c)
  \/ \E c \in CallIds : RsLost(c)
  \/ \E c \in CallIds : UcUpdate(c)
  \/ \E c \in CallIds : UcCommit(c)
  \/ \E c \in CallIds : Commit(c)
SpecResolveAny == Init /\ [][NextResolveAny]_vars

\* Betting settlement.
NextBetting == Betting \/ EndTx \/ (\E c \in CallIds : UcUpdate(c) \/ UcCommit(c) \/ Fail(c))
SpecBetting == Init /\ [][NextBetting]_vars

\* placeBet alone, over every amount a request may carry.
NextPlaceBet ==
  \/ \E c \in CallIds, u \in Users, e \in Events, o \in Options, amt \in RequestAmounts : StartPlaceBet(c, u, e, o, amt)
  \/ \E c \in CallIds : PbInsert(c)
  \/ \E c \in CallIds : UcUpdate(c)
  \/ \E c \in CallIds : UcCommit(c)
  \/ \E c \in CallIds : Commit(c)
  \/ \E c \in CallIds : Fail(c)
SpecPlaceBet == Init /\ [][NextPlaceBet]_vars

\* The payout expression by itself.
NextPayout == ComputePayout
SpecPayout == InitPayout /\ [][NextPayout]_vars

\* createLoan alone, over the amounts and rates a loan form may carry.
NextCreateLoan == \E u \in Users, amt \in FormAmounts, rate \in FormRates : CreateLoan(u, amt, rate)
SpecCreateLoan == InitNoCalls /\ [][NextCreateLoan]_vars

\* Loan settlement.
NextLending == Lending \/ EndTx \/ (\E c \in CallIds : UcUpdate(c) \/ UcCommit(c) \/ Fail(c))
SpecLending == Init /\ [][NextLending]_vars

\* Loan settlement in which no call meets a fault.
NextLendingSteady == Lending \/ EndTx \/ (\E c \in CallIds : UcUpdate(c) \/ UcCommit(c))
SpecLendingSteady == Init /\ [][NextLendingSteady]_vars

\* Challenge settlement.
NextChallenges == Challenges \/ EndTx \/ (\E c \in CallIds : UcUpdate(c) \/ UcCommit(c) \/ Fail(c))
SpecChallenges == Init /\ [][NextChallenges]_vars

\* Challenge settlement in which no call meets a fault.
NextChallengesSteady == Challenges \/ EndTx \/ (\E c \in CallIds : UcUpdate(c) \/ UcCommit(c))
SpecChallengesSteady == Init /\ [][NextChallengesSteady]_vars

\* ------------------------------------------------------------- properties
RECURSIVE SumTo(_, _)
\* The sum of the amounts of u's first n ledger entries.
SumTo(u, n) ==
  IF n = 0 THEN 0
  ELSE SumTo(u, n - 1) + (IF ledger[n].userId = u THEN ledger[n].amount ELSE 0)

LedgerSum(u) == SumTo(u, Len(ledger))

\* The ledger entries a call wrote.
EntriesBy(c) == {i \in DOMAIN ledger : ledger[i].call = c}

\* The ledger entries of a type that refer to an entity.
EntriesOf(type, ref) == {i \in DOMAIN ledger : ledger[i].type = type /\ ledger[i].referenceId = ref}

Quiescent == Active = {}

RECURSIVE SumDone(_, _)
\* The sum of the amounts of the updateUserCredits calls 1..n on u that returned.
SumDone(u, n) ==
  IF n = 0 THEN 0
  ELSE SumDone(u, n - 1)
       + (IF calls[n].op = "updateUserCredits" /\ calls[n].user = u /\ calls[n].pc = "done"
          THEN calls[n].amount ELSE 0)

C2_BalanceAfterIsRunningBalance ==
  \A i \in DOMAIN ledger : ledger[i].balanceAfter = StartCredits + SumTo(ledger[i].userId, i)

\* C3: no update is lost: the balance is the starting balance plus the amount of
\* every updateUserCredits call on the player that returned, however the calls
\* interleaved.
C3_NoLostUpdate == \A u \in Users : credits[u] = StartCredits + SumDone(u, MaxCalls)

\* C3's case: a call invoked later has committed on the same player while an
\* earlier one still holds its transaction open, and then all have returned.
C3_Witness ==
  \E c, d \in CallIds :
    /\ c < d
    /\ calls[c].user = calls[d].user
    /\ calls[c].pc = "done" /\ calls[d].pc = "done"
    /\ \E i, j \in DOMAIN ledger : i < j /\ ledger[i].call = d /\ ledger[j].call = c

\* C4: fundLoan is both-or-neither: a fundLoan that failed after its lender
\* debit and before its borrower credit has left no ledger entry, and the loan
\* is as it was when no other call worked on it.
C4_FundLoanBothOrNeither ==
  \A c \in CallIds :
    (calls[c].op = "fundLoan" /\ calls[c].pc = "failed" /\ Len(calls[c].todo) = 1)
      => /\ EntriesBy(c) = {}
         /\ (\A d \in CallIds \ {c} : calls[d].op = "none") => loans[calls[c].id].status = calls[c].pre

\* C5: resolveBettingEvent on an event that is already resolved is rejected and
\* appends no ledger entry.
C5_ResolveResolvedRejected ==
  \A c \in CallIds :
    (calls[c].op = "resolveBettingEvent" /\ calls[c].pre = "resolved" /\ Finished(c))
      => calls[c].pc = "failed" /\ EntriesBy(c) = {}

\* C6: once no call is running, a player's won bets on an event and the bet_win
\* entries persisted for that player and event correspond one to one, also
\* after resolveBettingEvent failed partway.
C6_WonIffPaid ==
  Quiescent =>
    \A u \in Users, e \in Events :
      Cardinality({b \in BetIds : bets[b].status = "won" /\ bets[b].userId = u /\ bets[b].eventId = e})
        = Cardinality({i \in EntriesOf("bet_win", e) : ledger[i].userId = u})

\* C7: in every committed state, a player's bet rows on an event and the
\* bet_placed debits persisted for that player and event correspond one to one.
C7_BetIffDebited ==
    \A u \in Users, e \in Events :
      Cardinality({b \in BetIds : bets[b].status # "none" /\ bets[b].userId = u /\ bets[b].eventId = e})
        = Cardinality({i \in EntriesOf("bet_placed", e) : ledger[i].userId = u})

\* C8: fundLoan on a funded or repaid loan is rejected and writes no ledger
\* entry, and no loan ever has more than one loan_funded / loan_received pair.
C8_FundOnlyPending ==
  /\ \A c \in CallIds :
       (calls[c].op = "fundLoan" /\ calls[c].pre \in {"funded", "repaid"} /\ Finished(c))
         => calls[c].pc = "failed" /\ EntriesBy(c) = {}
  /\ \A l \in LoanIds :
       Cardinality(EntriesOf("loan_funded", l)) <= 1 /\ Cardinality(EntriesOf("loan_received", l)) <= 1

\* C9: repayLoan on a pending or an already repaid loan is rejected, leaves the
\* loan's status as it was and writes no ledger entry, and no loan ever has more
\* than one loan_repaid / loan_repaid_received pair.
C9_RepayOnlyFunded ==
  /\ \A c \in CallIds :
       (calls[c].op = "repayLoan" /\ calls[c].pre \in {"pending", "repaid"} /\ Finished(c))
         => /\ calls[c].pc = "failed" /\ EntriesBy(c) = {}
            /\ (\A d \in CallIds \ {c} : calls[d].op = "none") => loans[calls[c].id].status = calls[c].pre
  /\ \A l \in LoanIds :
       Cardinality(EntriesOf("loan_repaid", l)) <= 1 /\ Cardinality(EntriesOf("loan_repaid_received", l)) <= 1

\* C10: a submission that is approved or rejected keeps its status, reviewer
\* and review time for ever: its status changes at most once.
C10_ReviewedIsTerminal ==
  [][\A s \in Subs : subs[s].status \in {"approved", "rejected"} => subs'[s] = subs[s]]_vars

\* The challenge_reward entries persisted for the submitter of submission s.
RewardEntries(s) == {i \in EntriesOf("challenge_reward", ChallengeId) : ledger[i].userId = SubUser(s)}

\* C11: over any sequence or interleaving of reviewSubmission calls on one
\* submission the submitter receives at most one challenge_reward entry, and
\* once no call is running a submission is approved exactly when its one reward
\* entry is persisted.
C11_RewardAtMostOnce ==
  \A s \in Subs :
    /\ Cardinality(RewardEntries(s)) <= 1
    /\ Quiescent => (subs[s].status = "approved" <=> Cardinality(RewardEntries(s)) = 1)

\* C12: no step of a reviewSubmission call whose decision is rejected changes a
\* balance or appends a ledger entry.
C12_RejectedPaysNothing ==
  [][\A c \in CallIds :
       (calls'[c] # calls[c] /\ calls'[c].op = "reviewSubmission" /\ calls'[c].opt = "rejected")
         => credits' = credits /\ ledger' = ledger]_vars

\* C12's case: a rejecting review of a pending submission has returned and the
\* submission is rejected.
C12_Witness ==
  \E c \in CallIds :
    /\ calls[c].op = "reviewSubmission" /\ calls[c].opt = "rejected" /\ calls[c].pc = "done"
    /\ calls[c].pre = "pending"
    /\ subs[calls[c].ev].status = "rejected"

\* C13: a placeBet on an event that is not open is rejected: it commits no bet
\* row, changes no balance and appends no ledger entry.
C13_PlaceOnlyOnOpen ==
  \A c \in CallIds :
    (calls[c].op = "placeBet" /\ calls[c].pre # "open")
      => /\ EntriesBy(c) = {}
         /\ calls[c].id = 0 \/ bets[calls[c].id].status = "none"

\* C14: a placeBet whose amount is zero or negative is rejected: it commits no
\* bet row and appends no ledger entry; and no bet_placed entry credits the
\* bettor.
C14_PlaceOnlyPositive ==
  /\ \A c \in CallIds :
       (calls[c].op = "placeBet" /\ calls[c].amount <= 0)
         => /\ EntriesBy(c) = {}
            /\ calls[c].id = 0 \/ bets[calls[c].id].status = "none"
  /\ \A i \in DOMAIN ledger : ledger[i].type = "bet_placed" => ledger[i].amount < 0

\* The refunds persisted for bet b: the entries of the cancelBet calls on b.
RefundsOf(b) == UNION {EntriesBy(c) : c \in {d \in CallIds : calls[d].op = "cancelBet" /\ calls[d].id = b}}

\* C15: a cancelBet on a bet that is cancelled, won or lost refunds nothing,
\* and a bet is refunded at most once.
C15_CancelOnlyActive ==
  /\ \A c \in CallIds :
       (calls[c].op = "cancelBet" /\ calls[c].pre \in {"cancelled", "won", "lost"}) => EntriesBy(c) = {}
  /\ \A b \in BetIds : Cardinality(RefundsOf(b)) <= 1

\* C16: no step of a cancelBet call made by a player who does not own the bet
\* changes a bet, a balance or the ledger.
C16_CancelOnlyOwner ==
  [][\A c \in CallIds :
       (/\ calls'[c] # calls[c]
        /\ calls'[c].op = "cancelBet"
        /\ bets[calls'[c].id].status # "none"
        /\ bets[calls'[c].id].userId # calls'[c].user)
         => bets' = bets /\ credits' = credits /\ ledger' = ledger]_vars

\* C16's case: a cancelBet by another player on a committed active bet has
\* returned and the bet is still active.
C16_Witness ==
  \E c \in CallIds :
    /\ calls[c].op = "cancelBet" /\ calls[c].pc = "done" /\ calls[c].pre = "active"
    /\ bets[calls[c].id].userId # calls[c].user
    /\ bets[calls[c].id].status = "active"

\* C17: a cancelBet on a bet whose event is closed, resolved or cancelled
\* refunds nothing.
C17_CancelOnlyOnOpenEvent ==
  \A c \in CallIds :
    (calls[c].op = "cancelBet" /\ calls[c].preEv \in {"closed", "resolved", "cancelled"})
      => EntriesBy(c) = {}

\* Whether p is floor(amt * multiplier of option o), over the decimal multiplier.
IsExactPayout(p, amt, o) ==
  p * 100 <= amt * MultiplierHundredths(o) /\ amt * MultiplierHundredths(o) < (p + 1) * 100

\* C18: the select of a resolveBettingEvent(e, w) returns the bets that are
\* active on e and w, and when a call made on an open event commits, each of
\* them is won with payout floor(amount * multiplier of w) and the call has
\* written exactly one bet_win entry of that payout per winning bet.
C18_WinnersPaidOnce ==
  [][\A c \in CallIds :
       /\ (calls[c].pc = "rs_event" /\ calls'[c].pc \in {"rs_win", "rs_lost"})
            => calls'[c].sel = {b \in BetIds : /\ bets[b].eventId = calls[c].ev
                                               /\ bets[b].optionId = calls[c].opt
                                               /\ bets[b].status = "active"}
       /\ (/\ calls[c].op = "resolveBettingEvent" /\ calls[c].pre = "open"
           /\ calls[c].pc = "commit" /\ calls'[c].pc = "done")
            => /\ \A b \in calls[c].sel :
                    /\ bets'[b].status = "won"
                    /\ IsExactPayout(bets'[b].payout, bets'[b].amount, calls[c].opt)
               /\ \A i \in EntriesBy(c) :
                    /\ ledger[i].type = "bet_win"
                    /\ \E b \in calls[c].sel :
                         /\ bets'[b].userId = ledger[i].userId
                         /\ IsExactPayout(ledger[i].amount, bets'[b].amount, calls[c].opt)
               /\ \A u \in Users :
                    Cardinality({i \in EntriesBy(c) : ledger[i].userId = u})
                      = Cardinality({b \in calls[c].sel : bets'[b].userId = u})]_vars

\* C19: the final update of a resolveBettingEvent(e, w) marks every bet that is
\* active on e and on another option than w, when the call commits each of
\* them is lost, and the call has written ledger entries for its winning bets
\* only.
C19_LosersLostUnpaid ==
  [][\A c \in CallIds :
       /\ (calls[c].pc = "rs_lost" /\ calls'[c].pc = "commit")
            => \A b \in BetIds :
                 (bets[b].eventId = calls[c].ev /\ bets[b].optionId # calls[c].opt /\ bets[b].status = "active")
                   => calls'[c].wbets[b].status = "lost"
       /\ (calls[c].op = "resolveBettingEvent" /\ calls[c].pc = "commit" /\ calls'[c].pc = "done")
            => /\ \A b \in BetIds : calls[c].wbets[b].status = "lost"
                    => bets'[b].status = "lost" /\ bets'[b].optionId # calls[c].opt
               /\ \A i \in EntriesBy(c) : ledger[i].type = "bet_win"
               /\ Cardinality(EntriesBy(c)) = Cardinality(calls[c].sel)
               /\ credits' = credits /\ ledger' = ledger]_vars

\* C19's case: a resolveBettingEvent has returned after paying a winner, and a
\* bet on another option of its event is lost.
C19_Witness ==
  \E c \in CallIds, b \in BetIds :
    /\ calls[c].op = "resolveBettingEvent" /\ calls[c].pc = "done"
    /\ bets[b].eventId = calls[c].ev /\ bets[b].optionId # calls[c].opt /\ bets[b].status = "lost"
    /\ EntriesBy(c) # {}

\* C20: the payout is computed exactly over the decimal multiplier: for every
\* positive integer amount and every multiplier of h hundredths the value of
\* the payout expression is floor(amount * h / 100).
C20_PayoutExact ==
  calc.payout # -1 => calc.payout = (calc.amount * calc.hundredths) \div 100

\* Whether call c wrote exactly two ledger entries: first amount -amt of type
\* t1 to user u1, then amount amt of type t2 to user u2, both referring to l.
MovedPair(c, l, amt, u1, t1, u2, t2) ==
  \E i, j \in DOMAIN ledger :
    /\ i < j /\ EntriesBy(c) = {i, j}
    /\ ledger[i].userId = u1 /\ ledger[i].amount = -amt /\ ledger[i].type = t1 /\ ledger[i].referenceId = l
    /\ ledger[j].userId = u2 /\ ledger[j].amount = amt /\ ledger[j].type = t2 /\ ledger[j].referenceId = l

\* C21: the loan lifecycle. Creating a loan stores it pending and changes no
\* balance and no ledger entry. A fundLoan by L that returns, on a loan that
\* was pending, leaves the loan funded with lender L, after a loan_funded entry
\* of -amount for L and a loan_received entry of +amount for the borrower. A
\* repayLoan that returns, on a loan that was funded, leaves the loan repaid,
\* after a loan_repaid entry of -totalRepayment for the borrower and a
\* loan_repaid_received entry of +totalRepayment for the lender. Each entry of
\* the two operations changes its owner's balance by its amount and no other
\* balance. The loan's state is the row the call's update matched, which no
\* other call can write until the call ends.
C21_LoanLifecycle ==
  [][/\ \A l \in LoanIds :
          (loans[l].status = "none" /\ loans'[l].status # "none")
            => loans'[l].status = "pending" /\ credits' = credits /\ ledger' = ledger
     /\ \A c \in CallIds :
          (calls[c].op \in {"fundLoan", "repayLoan"} /\ Len(ledger') = Len(ledger) + 1
             /\ ledger'[Len(ledger')].call = c)
            => LET e == ledger'[Len(ledger')] IN
                 \A u \in Users : credits'[u] = credits[u] + (IF u = e.userId THEN e.amount ELSE 0)
     /\ \A c \in CallIds :
          (calls[c].op = "fundLoan" /\ calls[c].pc = "commit" /\ calls'[c].pc = "done"
             /\ calls[c].wloan.status # "none" /\ loans[calls[c].id].status = "pending")
            => LET l == calls[c].id IN
                 /\ loans'[l].status = "funded" /\ loans'[l].lenderId = calls[c].user
                 /\ MovedPair(c, l, loans[l].amount, calls[c].user, "loan_funded",
                              loans[l].borrowerId, "loan_received")
     /\ \A c \in CallIds :
          (calls[c].op = "repayLoan" /\ calls[c].pc = "commit" /\ calls'[c].pc = "done"
             /\ calls[c].wloan.status # "none" /\ loans[calls[c].id].status = "funded")
            => LET l == calls[c].id IN
                 /\ loans'[l].status = "repaid"
                 /\ MovedPair(c, l, loans[l].totalRepayment, loans[l].borrowerId, "loan_repaid",
                              loans[l].lenderId, "loan_repaid_received")]_vars

\* C21's case: a loan was created, funded by the other player and repaid, and
\* both calls have returned with their four ledger entries.
C21_Witness ==
  \E c, d \in CallIds, l \in LoanIds :
    /\ calls[c].op = "fundLoan" /\ calls[c].pc = "done" /\ calls[c].id = l /\ calls[c].pre = "pending"
    /\ calls[d].op = "repayLoan" /\ calls[d].pc = "done" /\ calls[d].id = l /\ calls[d].pre = "funded"
    /\ loans[l].status = "repaid" /\ loans[l].lenderId = calls[c].user
    /\ loans[l].lenderId # loans[l].borrowerId
    /\ Cardinality(EntriesBy(c)) = 2 /\ Cardinality(EntriesBy(d)) = 2
    /\ credits[loans[l].borrowerId] = StartCredits + loans[l].amount - loans[l].totalRepayment
    /\ credits[loans[l].lenderId] = StartCredits - loans[l].amount + loans[l].totalRepayment

\* C22: every loan createLoan persisted has totalRepayment equal to
\* floor(amount * (1 + interestRate / 100)) computed exactly: the largest
\* integer t with 100 * t <= amount * (100 + interestRate).
C22_TotalRepaymentExact ==
  \A l \in LoanIds :
    loans[l].status # "none"
      => /\ 100 * loans[l].totalRepayment <= loans[l].amount * (100 + loans[l].interestRate)
         /\ loans[l].amount * (100 + loans[l].interestRate) < 100 * (loans[l].totalRepayment + 1)

\* C23: updateUserCredits for a player that does not exist fails with an error
\* and mutates nothing: the call never returns normally, none of its steps
\* changes a balance, a ledger entry or any other row, and no ledger entry is
\* ever its own.
C23_UnknownUserFails ==
  [][\A c \in CallIds :
       (calls'[c].op = "updateUserCredits" /\ calls'[c].user \notin Users)
         => /\ calls'[c].pc \in {"uc_update", "failed"}
            /\ calls'[c] # calls[c] => db' = db
            /\ \A i \in DOMAIN ledger' : ledger'[i].call # c /\ ledger'[i].userId \in Users]_vars

\* C23's case: a call for an id without a row has failed at its update, while
\* a call for an existing player has returned with its entry.
C23_Witness ==
  \E c, d \in CallIds :
    /\ calls[c].op = "updateUserCredits" /\ calls[c].user \notin Users
    /\ calls[c].pc = "failed" /\ calls[c].at = "uc_update"
    /\ calls[d].op = "updateUserCredits" /\ calls[d].user \in Users /\ calls[d].pc = "done"
    /\ Len(ledger) = 1 /\ credits[calls[d].user] = StartCredits + calls[d].amount

\* The weekly_stipend entries call c wrote for player u.
GrantsBy(c, u) == {i \in EntriesBy(c) : ledger[i].userId = u /\ ledger[i].type = "weekly_stipend"}

\* Run d was invoked after run c had ended, less than 7 days after c was invoked.
RetryOf(c, d) ==
  /\ calls[c].op = "processWeeklyStipends" /\ calls[d].op = "processWeeklyStipends"
  /\ c \in calls[d].prior
  /\ calls[d].since - calls[c].since < StipendDays

\* C24: when processWeeklyStipends runs twice in succession, the second run
\* invoked after the first has ended and less than 7 days after the first was
\* invoked, no player is granted by both: the two runs together write at most
\* one weekly_stipend entry per player, and once both have returned every
\* player the first run selected has exactly one, of +200.
C24_RetryGrantsOnce ==
  \A c, d \in CallIds :
    RetryOf(c, d)
      => \A u \in Users :
           /\ Cardinality(GrantsBy(c, u) \cup GrantsBy(d, u)) <= 1
           /\ (calls[c].pc = "done" /\ calls[d].pc = "done" /\ u \in calls[c].picked)
                => /\ Cardinality(GrantsBy(c, u)) = 1 /\ GrantsBy(d, u) = {}
                   /\ \A i \in GrantsBy(c, u) : ledger[i].amount = StipendAmount

\* C24's case: the first run granted both players, the second ran a day later
\* and returned without a grant.
C24_Witness ==
  \E c, d \in CallIds :
    /\ RetryOf(c, d) /\ calls[c].pc = "done" /\ calls[d].pc = "done"
    /\ calls[c].picked = Users /\ calls[d].since > calls[c].since
    /\ Cardinality(EntriesBy(c)) = 2 /\ EntriesBy(d) = {}
    /\ \A u \in Users : credits[u] = StartCredits + StipendAmount

\* C25: however two concurrently running processWeeklyStipends interleave, each
\* player receives at most one weekly_stipend entry within any 7-day window:
\* two weekly_stipend entries of one player are at least 7 days apart.
C25_OneStipendPerWindow ==
  \A i, j \in DOMAIN ledger :
    (i < j /\ ledger[i].userId = ledger[j].userId
       /\ ledger[i].type = "weekly_stipend" /\ ledger[j].type = "weekly_stipend")
      => ledger[j].createdAt - ledger[i].createdAt >= StipendDays

\* C26: a processWeeklyStipends run grants exactly the players whose
\* lastStipendDate is null or more than 7 days before the run: its select,
\* against the oneWeekAgo of its invocation, returns exactly these players;
\* each grant raises that player's balance by 200, appends one weekly_stipend
\* entry of +200 and sets lastStipendDate to the time of the grant, within the
\* run, leaving every other player as before; and a run that returns has
\* granted each player it selected once and no other player.
C26_GrantsExactlyEligible ==
  [][\A c \in CallIds :
       /\ (calls[c].op = "none" /\ calls'[c].op = "processWeeklyStipends")
            => calls'[c].since = now - StipendDays
       /\ (calls[c].pc = "st_select" /\ calls'[c].pc \in {"st_update", "done"})
            => calls'[c].picked = {u \in Users : lastStipendDate[u] = -1
                                                   \/ lastStipendDate[u] < calls[c].since}
       /\ (calls[c].pc = "st_commit" /\ calls'[c].pc \in {"st_update", "done"})
            => LET u == calls[c].uc.userId IN
                 /\ u \in calls[c].picked
                 /\ credits' = [credits EXCEPT ![u] = credits[u] + StipendAmount]
                 /\ \E t \in (calls[c].since + StipendDays)..now :
                      lastStipendDate' = [lastStipendDate EXCEPT ![u] = t]
                 /\ Len(ledger') = Len(ledger) + 1 /\ SubSeq(ledger', 1, Len(ledger)) = ledger
                 /\ LET e == ledger'[Len(ledger')] IN
                      /\ e.userId = u /\ e.amount = StipendAmount /\ e.type = "weekly_stipend"
                      /\ e.call = c
       /\ (calls[c].op = "processWeeklyStipends" /\ calls[c].pc # "done" /\ calls'[c].pc = "done")
            => \A u \in Users :
                 Cardinality({i \in DOMAIN ledger' : ledger'[i].call = c /\ ledger'[i].userId = u})
                   = IF u \in calls'[c].picked THEN 1 ELSE 0]_vars

\* C26's case: a run has returned after granting the one player whose last
\* stipend was more than 7 days old and passing over the player granted within
\* the last 7 days.
C26_Witness ==
  \E c \in CallIds, u, v \in Users :
    /\ calls[c].op = "processWeeklyStipends" /\ calls[c].pc = "done"
    /\ calls[c].picked = {u} /\ u # v
    /\ Cardinality(GrantsBy(c, u)) = 1 /\ GrantsBy(c, v) = {}
    /\ credits[u] = StartCredits + 2 * StipendAmount
    /\ lastStipendDate[v] # -1 /\ lastStipendDate[v] >= calls[c].since

\* The weekly_stipend entries of player u.
StipendsOf(u) == {i \in DOMAIN ledger : ledger[i].userId = u /\ ledger[i].type = "weekly_stipend"}

\* C27: stipend grants are atomic per player: in every committed state a
\* player's lastStipendDate is set if and only if a weekly_stipend entry of
\* the player is persisted; it is then the date of the player's latest entry,
\* and the balance holds +200 for each of the player's entries, also after a
\* run failed in the middle of a player's step.
C27_StipendAtomic ==
  \A u \in Users :
    /\ lastStipendDate[u] = -1 <=> StipendsOf(u) = {}
    /\ credits[u] = StartCredits + StipendAmount * Cardinality(StipendsOf(u))
    /\ StipendsOf(u) # {}
         => LET last == CHOOSE i \in StipendsOf(u) : \A j \in StipendsOf(u) : j <= i IN
              lastStipendDate[u] = ledger[last].createdAt

\* C27's case: a run failed inside a player's transaction, after the update
\* and before the commit, having granted another player before.
C27_Witness ==
  \E c \in CallIds, u \in Users :
    /\ calls[c].op = "processWeeklyStipends" /\ calls[c].pc = "failed" /\ calls[c].at = "st_commit"
    /\ Cardinality(EntriesBy(c)) = 1
    /\ u \in calls[c].picked /\ StipendsOf(u) = {} /\ lastStipendDate[u] = -1

\* C28: when a processWeeklyStipends run fails inside its player loop, the
\* failure changes nothing that is committed and the grants it made stay in
\* the ledger; every eligible player it had not granted stays eligible as long
\* as no other run grants them; and a later invocation that returns, with no
\* other run granting in between, has granted each of them exactly once.
C28_StragglersPickedUp ==
  [][/\ SubSeq(ledger', 1, Len(ledger)) = ledger
     /\ \A c \in CallIds :
          /\ (calls[c].pc # "failed" /\ calls'[c].pc = "failed") => db' = db
          /\ (calls'[c].op = "processWeeklyStipends" /\ calls'[c].pc = "failed")
               => \A u \in calls'[c].left :
                    /\ (\A i \in StipendsOf(u)' : i <= calls'[c].mark)
                         => lastStipendDate'[u] = -1 \/ lastStipendDate'[u] < calls'[c].since
                    /\ \A d \in CallIds :
                         (calls'[d].op = "processWeeklyStipends" /\ calls'[d].pc = "done"
                            /\ c \in calls'[d].prior
                            /\ \A i \in StipendsOf(u)' : i > calls'[c].mark => ledger'[i].call = d)
                           => Cardinality(GrantsBy(d, u)') = 1]_vars

\* C28's case: a run granted one player and failed before the other; the next
\* run returned having granted the other player once and the first not again.
C28_Witness ==
  \E c, d \in CallIds, u, v \in Users :
    /\ calls[c].op = "processWeeklyStipends" /\ calls[c].pc = "failed"
    /\ calls[d].op = "processWeeklyStipends" /\ calls[d].pc = "done" /\ c \in calls[d].prior
    /\ u # v /\ calls[c].left = {v}
    /\ Cardinality(GrantsBy(c, u)) = 1 /\ GrantsBy(c, v) = {}
    /\ GrantsBy(d, u) = {} /\ Cardinality(GrantsBy(d, v)) = 1
    /\ credits[u] = StartCredits + StipendAmount /\ credits[v] = StartCredits + StipendAmount

SettlementOps == {"reviewSubmission", "placeBet", "cancelBet", "resolveBettingEvent", "fundLoan", "repayLoan"}

\* C29: a settlement operation that returned an error has persisted no credit
\* movement: no ledger entry is its own.
C29_FailedMovesNothing ==
  \A c \in CallIds :
    (calls[c].op \in SettlementOps /\ calls[c].pc = "failed") => EntriesBy(c) = {}

ByIdOps == {"reviewSubmission", "cancelBet", "resolveBettingEvent", "fundLoan", "repayLoan"}

\* C31: reviewSubmission, cancelBet, resolveBettingEvent, fundLoan and
\* repayLoan called with an id that matches no row fail with an error instead
\* of reporting success, and change no state: such a call, once ended, has
\* thrown and no ledger entry is its own.
C31_MissingIdFails ==
  \A c \in CallIds :
    (calls[c].op \in ByIdOps /\ calls[c].pre = "none" /\ Finished(c))
      => calls[c].pc = "failed" /\ EntriesBy(c) = {}

\* The bet_placed entries of player u.
StakesOf(u) == {i \in DOMAIN ledger : ledger[i].userId = u /\ ledger[i].type = "bet_placed"}

\* C32: there is no overdraft guard. Every ledger entry a call writes, debit
\* or credit, changes its owner's balance by exactly its amount whatever the
\* balance was; no call is rejected; a placeBet that returns has written one
\* bet_placed entry of minus its stake; and two placeBet calls of one player
\* with nothing else on the player's ledger leave the balance at the start
\* minus both stakes, below zero when the stakes exceed it.
C32_NoOverdraftGuard ==
  [][/\ \A c \in CallIds :
          /\ (Len(ledger') = Len(ledger) + 1 /\ ledger'[Len(ledger')].call = c)
               => LET e == ledger'[Len(ledger')] IN
                    \A u \in Users : credits'[u] = credits[u] + (IF u = e.userId THEN e.amount ELSE 0)
          /\ calls'[c].pc # "failed"
          /\ (calls[c].op = "placeBet" /\ calls[c].pc # "done" /\ calls'[c].pc = "done")
               => \E i \in DOMAIN ledger :
                    /\ EntriesBy(c) = {i} /\ ledger[i].type = "bet_placed"
                    /\ ledger[i].userId = calls[c].user /\ ledger[i].amount = -calls[c].amount
     /\ \A c, d \in CallIds :
          (c # d /\ calls'[c].op = "placeBet" /\ calls'[d].op = "placeBet"
             /\ calls'[c].pc = "done" /\ calls'[d].pc = "done" /\ calls'[c].user = calls'[d].user
             /\ \A i \in DOMAIN ledger' : ledger'[i].userId = calls'[c].user => ledger'[i].call \in {c, d})
            => credits'[calls'[c].user] = StartCredits - calls'[c].amount - calls'[d].amount]_vars

\* C32's case: two stakes of one player that together exceed the balance were
\* both accepted: both calls returned, the player has two bet_placed entries
\* and a negative balance.
C32_Witness ==
  \E c, d \in CallIds :
    /\ c # d /\ calls[c].op = "placeBet" /\ calls[d].op = "placeBet"
    /\ calls[c].pc = "done" /\ calls[d].pc = "done" /\ calls[c].user = calls[d].user
    /\ calls[c].amount + calls[d].amount > StartCredits
    /\ Cardinality(StakesOf(calls[c].user)) = 2
    /\ credits[calls[c].user] = StartCredits - calls[c].amount - calls[d].amount
    /\ credits[calls[c].user] < 0

\* C33: every balance change is matched by exactly one ledger entry of the
\* same amount. A step appends at most one entry and rewrites none; a step that
\* changes a player's balance or appends an entry of that player appends exactly
\* one entry, the player's, whose amount is the change of the balance; and so
\* after the step every balance minus the starting balance is the sum of the
\* player's entry amounts.
C33_ChangeMatchedByOneEntry ==
  [][/\ Len(ledger') \in {Len(ledger), Len(ledger) + 1}
     /\ SubSeq(ledger', 1, Len(ledger)) = ledger
     /\ \A u \in Users :
          /\ (Len(ledger') = Len(ledger)) => credits'[u] = credits[u]
          /\ (Len(ledger') = Len(ledger) + 1) =>
               credits'[u] - credits[u] =
                 (IF ledger'[Len(ledger')].userId = u THEN ledger'[Len(ledger')].amount ELSE 0)
          /\ credits'[u] - StartCredits = LedgerSum(u)']_vars

\* C33's case: a player whose balance was moved by a debit and by a credit of
\* different operations and differs from the starting balance.
C33_Witness ==
  \E u \in Users : \E i, j \in DOMAIN ledger :
    /\ ledger[i].userId = u /\ ledger[j].userId = u
    /\ ledger[i].amount < 0 /\ ledger[j].amount > 0
    /\ ledger[i].call # ledger[j].call
    /\ credits[u] # StartCredits
    /\ credits[u] = StartCredits + ledger[i].amount + ledger[j].amount

RECURSIVE MovedBy(_, _)
\* The sum of the amounts of the entries among the first n that call c wrote.
MovedBy(c, n) ==
  IF n = 0 THEN 0
  ELSE MovedBy(c, n - 1) + (IF ledger[n].call = c THEN ledger[n].amount ELSE 0)

RECURSIVE TotalOf(_)
\* The total of the balances of a set of players.
TotalOf(us) ==
  IF us = {} THEN 0
  ELSE LET u == CHOOSE x \in us : TRUE IN credits[u] + TotalOf(us \ {u})

LoanOps == {"fundLoan", "repayLoan"}

\* C34: a fundLoan and a repayLoan that return leave the total of all balances
\* unchanged, lender and borrower being the same player or not: the amounts of
\* the entries the call wrote sum to zero, and when every call made so far has
\* returned the total of the balances is what it was at the start.
C34_LoanOpsConserveTotal ==
  /\ \A c \in CallIds :
       (calls[c].op \in LoanOps /\ calls[c].pc = "done") => MovedBy(c, Len(ledger)) = 0
  /\ (\A c \in CallIds : calls[c].op \in LoanOps \cup {"none"} /\ calls[c].pc \in {"idle", "done"})
       => TotalOf(Users) = Cardinality(Users) * StartCredits

\* C34's case: a fundLoan by the borrower of the loan and a repayLoan have both
\* returned, each having moved credits, and every balance is the starting one.
C34_Witness ==
  \E c, d \in CallIds :
    /\ calls[c].op = "fundLoan" /\ calls[c].pc = "done" /\ EntriesBy(c) # {}
    /\ calls[d].op = "repayLoan" /\ calls[d].pc = "done" /\ EntriesBy(d) # {}
    /\ \E i, j \in EntriesBy(c) : i # j /\ ledger[i].userId = ledger[j].userId
    /\ \A u \in Users : credits[u] = StartCredits

\* C35: a bet is settled at most once. A bet that has left active never changes
\* its status again, it is never refunded twice, and a bet that is won has no
\* refund.
C35_SettledOnce ==
  [][\A b \in BetIds :
       /\ bets[b].status \notin {"none", "active"} => bets'[b].status = bets[b].status
       /\ Cardinality(RefundsOf(b)') + (IF bets'[b].status = "won" THEN 1 ELSE 0) <= 1]_vars

\* C36: when an event is resolved and no resolveBettingEvent on it is running,
\* no bet on that event is active.
C36_NoActiveBetOnResolved ==
  \A e \in Events :
    (/\ events[e].status = "resolved"
     /\ \A c \in CallIds : ~(calls[c].op = "resolveBettingEvent" /\ calls[c].ev = e /\ Running(c)))
      => \A b \in BetIds : ~(bets[b].eventId = e /\ bets[b].status = "active")

\* C37: once an event is resolved, the outcome is final: its winningOptionId
\* stays what it is, and the status and payout of each of its bets that is won
\* or lost stay what they are.
C37_OutcomeFinal ==
  [][\A e \in Events :
       events[e].status = "resolved" =>
         /\ events'[e] = events[e]
         /\ \A b \in BetIds :
              (bets[b].eventId = e /\ bets[b].status \in {"won", "lost"})
                => bets'[b].status = bets[b].status /\ bets'[b].payout = bets[b].payout]_vars

\* The number of ledger entries of a type that refer to loan l.
LoanEntries(type, l) == Cardinality(EntriesOf(type, l))

\* Whether the status of loan l and the ledger agree.
LoanAgrees(l) ==
  LET funding == <<LoanEntries("loan_funded", l), LoanEntries("loan_received", l)>>
      repayment == <<LoanEntries("loan_repaid", l), LoanEntries("loan_repaid_received", l)>> IN
    /\ loans[l].status = "pending" => funding = <<0, 0>> /\ repayment = <<0, 0>>
    /\ loans[l].status = "funded"
         => loans[l].lenderId # "-" /\ funding = <<1, 1>> /\ repayment = <<0, 0>>
    /\ loans[l].status = "repaid"
         => loans[l].lenderId # "-" /\ funding = <<1, 1>> /\ repayment = <<1, 1>>

\* C38: loan status and ledger agree. Whenever no call is running, a pending
\* loan has no funding or repayment entry, a funded loan has a lender, one
\* loan_funded / loan_received pair and no repayment pair, and a repaid loan
\* has a lender, one funding pair and one repayment pair; and a loan's status
\* only moves from pending to funded and from funded to repaid.
C38_LoanStatusAgreesWithLedger ==
  [][\A l \in LoanIds :
       /\ Quiescent' => LoanAgrees(l)'
       /\ loans'[l].status # loans[l].status
            => <<loans[l].status, loans'[l].status>> \in
                 {<<"none", "pending">>, <<"pending", "funded">>, <<"funded", "repaid">>}]_vars

\* C39: the winning option of a resolved event is one of the event's own
\* options, and no step of a resolveBettingEvent whose winningOptionId belongs
\* to another event changes an event or a bet.
C39_WinnerIsOwnOption ==
  [][/\ \A e \in Events :
          events'[e].status = "resolved" => OptionEvent(events'[e].winningOptionId) = e
     /\ \A c \in CallIds :
          (/\ calls'[c] # calls[c]
           /\ calls'[c].op = "resolveBettingEvent"
           /\ OptionEvent(calls'[c].opt) # calls'[c].ev)
            => events' = events /\ bets' = bets]_vars

====
